---------------------------- MODULE Spec2Model ----------------------------
(***************************************************************************)
(* sleepy: a request-dispatch shim that routes HTTP requests to the        *)
(* verb methods of plain resources and writes the result as JSON.          *)
(*                                                                         *)
(* Two variants of the package are modelled side by side, selected by the  *)
(* variable `variant`:                                                     *)
(*   "httprouter"  src/core.go            (julienschmidt/httprouter)       *)
(*   "gorilla"     src/unnamed/part_000   (gorilla/mux through HandleFunc) *)
(* The dispatcher (requestHandler), Mux, SetMux, Start and log are the     *)
(* same text in both files; AddResource, AddResourceWithWrapper and        *)
(* logRequest differ and are modelled once per variant (suffix G for the   *)
(* gorilla file).                                                          *)
(*                                                                         *)
(* Outside the repository, and modelled by their documented behaviour:     *)
(*   - the router: httprouter keeps one route per (method, path), panics   *)
(*     when the same pair is registered twice and answers a path that has  *)
(*     routes for other methods only with 405 itself; a gorilla/mux route  *)
(*     added with HandleFunc matches its path for every method and the     *)
(*     first matching route wins;                                          *)
(*   - http.ResponseWriter of net/http: the response is what the server    *)
(*     sends for the calls of Header().Add, WriteHeader and Write. A Go    *)
(*     release that checks the code panics in WriteHeader on a code        *)
(*     outside 100..999; one that knows informational responses sends a    *)
(*     1xx code (101 apart) at once and leaves the status open; no body    *)
(*     is sent with a status 1xx, 204 or 304 or to a HEAD request; the     *)
(*     server recovers a panic of a handler and closes the connection;     *)
(*   - an unrecovered panic ends the program (panicked).                   *)
(*                                                                         *)
(* The API has no lock. Three kinds of goroutine run side by side: the     *)
(* one that calls Start and stays inside it while it serves, one that      *)
(* configures the API (SetLogger, Mux, SetMux, AddResource,                *)
(* AddResourceWithWrapper, one call after the other), and the server's,    *)
(* one per request. Each takes a step wherever it reads or writes what     *)
(* another may write or read, and the steps of the three interleave:       *)
(*   - a call of AddResource / AddResourceWithWrapper takes, for each      *)
(*     route, the call of api.Mux(), the call of the wrapper and the       *)
(*     router's insertion as three steps;                                  *)
(*   - Start takes its test of muxInitialized, its log call, and the       *)
(*     api.Mux() and ListenAndServe that follow as three steps;            *)
(*   - a request is followed through the dispatcher at the points where    *)
(*     it reads api.Logger or waits for the resource's method.             *)
(* The two reads of api.Logger in api.log are one step that also takes     *)
(* the SetLogger(nil) that falls between them (raced), and an insertion    *)
(* that writes the router's table while a request reads it may end the     *)
(* program (crash). The dispatcher writes no field of the API, so          *)
(* requests in progress change nothing for one another: the model          *)
(* follows one at a time (req).                                            *)
(***************************************************************************)
EXTENDS Integers, Sequences, FiniteSets, TLC

VARIABLES
  variant,         \* which source file is running
  Logger,          \* api.Logger # nil
  mux,             \* api.mux: the router instance
  muxInitialized,  \* api.muxInitialized
  newCount,        \* routers created by Mux() (httprouter.New / mux.NewRouter)
  routes,          \* the route table of api.mux, in registration order
  wrapCalls,       \* calls of a wrapper function so far
  calls,           \* the calls of AddResource / AddResourceWithWrapper made
                   \* so far: their arguments, in order
  reg,             \* the call of AddResource / AddResourceWithWrapper in
                   \* progress: the registrations it has still to make and
                   \* where it is in the first of them
  startpc,         \* where the call of Start in progress is, before it
                   \* serves or returns
  serving,         \* a call of Start is inside ListenAndServe, which
                   \* accepts requests on the port
  ret,             \* the last step of a call of Mux, SetMux or Start: what it
                   \* returned (if it has returned) and what the step logged
  req,             \* the request followed: where its handler is, and its
                   \* response so far
  panicked         \* the program died of an unrecovered panic

vars == <<variant, Logger, mux, muxInitialized, newCount, routes, wrapCalls,
          calls, reg, startpc, serving, ret, req, panicked>>

---------------------------------------------------------------------------
\* Bounds of the model.

\* AddResource and AddResourceWithWrapper are called at most MaxAdds times.
MaxAdds == 2

---------------------------------------------------------------------------
\* Program constants.

GET == "GET"
POST == "POST"
PUT == "PUT"
DELETE == "DELETE"
HEAD == "HEAD"
PATCH == "PATCH"

\* The six verbs, in the order AddResource registers them.
VerbOrder == <<GET, POST, PUT, DELETE, HEAD, PATCH>>
SixVerbs == {VerbOrder[i] : i \in 1..Len(VerbOrder)}

\* A verb outside the six.
OPTIONS == "OPTIONS"
Verbs == SixVerbs \cup {OPTIONS}

StatusBadRequest == 400
StatusMethodNotAllowed == 405
StatusInternalServerError == 500

ErrNoResource == "You must add at least one resource to this API."
ErrMuxSet == "You cannot set a muxer when already initialized."

---------------------------------------------------------------------------
\* Resources: values implementing some of GetSupported .. PatchSupported.

\* The verbs a resource implements (the type assertions resource.(XSupported)).
Implements(resource) ==
  CASE resource = "Empty" -> {}
    [] resource = "Item" -> {GET, HEAD}

\* A path that does not begin with "/".
BadPath == "x"

\* The arguments AddResource / AddResourceWithWrapper is called with: a
\* resource under one path and under two, under no path, under a path
\* without "/", and a resource without any verb method.
Registrations ==
  { [res |-> "Item", paths |-> <<"/a">>],
    [res |-> "Item", paths |-> <<"/a", "/b">>],
    [res |-> "Item", paths |-> <<>>],
    [res |-> "Item", paths |-> <<BadPath>>],
    [res |-> "Empty", paths |-> <<"/a">>] }

\* A resource, and a resource without any verb method, each under one path.
BasicRegistrations ==
  { [res |-> "Item", paths |-> <<"/a">>],
    [res |-> "Empty", paths |-> <<"/a">>] }

---------------------------------------------------------------------------
\* Body values a resource method returns, and json.MarshalIndent(v, "", "  ").
\* A value is [t, s, a]: t its kind, s its string (or key), a its elements.

JNil == [t |-> "nil", s |-> "", a |-> <<>>]
JStr(s) == [t |-> "str", s |-> s, a |-> <<>>]
JArr(elems) == [t |-> "arr", s |-> "", a |-> elems]
\* A map, as the sequence of its entries in sorted key order.
JMap(entries) == [t |-> "map", s |-> "", a |-> entries]
JEntry(k, v) == [t |-> "kv", s |-> k, a |-> <<v>>]
\* A channel: a type encoding/json does not support.
JChan == [t |-> "chan", s |-> "", a |-> <<>>]

\* map[string][]string{"items": {"item1", "item2"}}
ItemsData == JMap(<<JEntry("items", JArr(<<JStr("item1"), JStr("item2")>>))>>)
\* map[string]interface{}{"c": make(chan int)}
ChanData == JMap(<<JEntry("c", JChan)>>)

Datas == {JNil, ItemsData, ChanData}

\* Mutant: four spaces of indentation for two.
RECURSIVE Indent4(_)
Indent4(depth) == IF depth = 0 THEN "" ELSE "    " \o Indent4(depth - 1)

RECURSIVE Indent(_)
Indent(depth) == IF depth = 0 THEN "" ELSE "  " \o Indent(depth - 1)

RECURSIVE Encodable(_)
Encodable(v) ==
  /\ v.t # "chan"
  /\ \A i \in 1..Len(v.a) : Encodable(v.a[i])

RECURSIVE Encode(_, _)
RECURSIVE EncodeElems(_, _, _)
EncodeElems(elems, i, depth) ==
  IF i > Len(elems) THEN ""
  ELSE Indent(depth) \o Encode(elems[i], depth)
       \o (IF i < Len(elems) THEN ",\n" ELSE "\n")
       \o EncodeElems(elems, i + 1, depth)

Encode(v, depth) ==
  CASE v.t = "nil" -> "null"
    [] v.t = "str" -> "\"" \o v.s \o "\""
    [] v.t = "kv" -> "\"" \o v.s \o "\": " \o Encode(v.a[1], depth)
    [] v.t = "arr" ->
         IF Len(v.a) = 0 THEN "[]"
         ELSE "[\n" \o EncodeElems(v.a, 1, depth + 1) \o Indent(depth) \o "]"
    [] v.t = "map" ->
         IF Len(v.a) = 0 THEN "{}"
         ELSE "{\n" \o EncodeElems(v.a, 1, depth + 1) \o Indent(depth) \o "}"
    [] OTHER -> ""

MarshalErrText == "json: unsupported type: chan int"

\* (content, err) of json.MarshalIndent(data, "", "  ").
MarshalIndent(data) ==
  IF Encodable(data)
  THEN [content |-> Encode(data, 0), err |-> ""]
  ELSE [content |-> "", err |-> MarshalErrText]

---------------------------------------------------------------------------
\* http.Header: a function from header names to the sequence of their values.

HeaderNames == {"X-A", "x-a", "X-B"}

\* textproto.CanonicalMIMEHeaderKey, applied by Header.Add.
Canon(name) == IF name = "x-a" THEN "X-A" ELSE name

CanonNames == {Canon(n) : n \in HeaderNames}

NoHeader == [n \in HeaderNames |-> <<>>]

\* Header sets a resource method returns: nil, one with a repeated value,
\* one whose two names share a canonical form.
RepeatHeader == [NoHeader EXCEPT !["X-A"] = <<"1", "1">>, !["X-B"] = <<"2">>]
SharedHeader == [NoHeader EXCEPT !["X-A"] = <<"1">>, !["x-a"] = <<"2">>]
Headers == {NoHeader, RepeatHeader, SharedHeader}

\* The names present in a header set.
Present(header) == {n \in HeaderNames : Len(header[n]) > 0}

\* The orders in which `for name, values := range header` may visit the names.
RangeOrders(header) ==
  {o \in [1..Cardinality(Present(header)) -> Present(header)] :
     \A i, j \in DOMAIN o : i # j => o[i] # o[j]}

\* Mutant: Header().Set for Header().Add.
HeaderSet(h, name, value) ==
  [h EXCEPT ![Canon(name)] = <<value>>]

\* rw.Header().Add(name, value)
HeaderAdd(h, name, value) ==
  [h EXCEPT ![Canon(name)] = Append(@, value)]

RECURSIVE AddValues(_, _, _, _)
AddValues(h, name, values, i) ==
  IF i > Len(values) THEN h
  ELSE AddValues(HeaderAdd(h, name, values[i]), name, values, i + 1)

RECURSIVE AddHeaders(_, _, _, _)
AddHeaders(h, header, order, i) ==
  IF i > Len(order) THEN h
  ELSE AddHeaders(AddValues(h, order[i], header[order[i]], 1), header, order, i + 1)

\* The zero values (0, nil, nil): what a method returns that sets nothing,
\* and the value of the triple before a method has returned.
NoReturn == [code |-> 0, data |-> JNil, header |-> NoHeader]

\* The (code, data, header) triples a resource method returns: that of
\* the package's test, others that pair each body value with a header set
\* and each status with a value that encodes, and the zero values.  The
\* statuses: OK, two that allow no body (204, 304), two informational ones
\* (101 is the one a server never sends before the final status), and one
\* that is no status of HTTP (799).
Returns ==
  { [code |-> 200, data |-> ItemsData, header |-> NoHeader],
    [code |-> 799, data |-> ItemsData, header |-> RepeatHeader],
    [code |-> 200, data |-> JNil, header |-> SharedHeader],
    [code |-> 200, data |-> ChanData, header |-> RepeatHeader],
    [code |-> 204, data |-> ItemsData, header |-> NoHeader],
    [code |-> 304, data |-> JNil, header |-> NoHeader],
    [code |-> 103, data |-> ItemsData, header |-> RepeatHeader],
    [code |-> 101, data |-> ItemsData, header |-> NoHeader],
    NoReturn }

\* The returns of a resource as in the package's test, and the zero values.
BasicReturns ==
  { [code |-> 200, data |-> ItemsData, header |-> NoHeader], NoReturn }

---------------------------------------------------------------------------
\* Requests and the http.ResponseWriter.

RemoteAddr == "10.0.0.1:4000"
GoodQuery == "a=1"
\* "%zz" is no percent escape: url.ParseQuery, and so ParseForm, fails on it.
BadQuery == "a=%zz"

Request(method, path, query) ==
  [Method |-> method, Path |-> path, RawQuery |-> query]

\* The requests sent: each verb to "/a", a form that fails to parse with a
\* verb the resource implements and with one it does not, and a request to
\* the second path.
Requests ==
  { Request(GET, "/a", GoodQuery),
    Request(GET, "/a", BadQuery),
    Request(HEAD, "/a", GoodQuery),
    Request(PUT, "/a", GoodQuery),
    Request(OPTIONS, "/a", GoodQuery),
    Request(OPTIONS, "/a", BadQuery),
    Request(GET, "/b", GoodQuery) }

NoRequest == [Method |-> "", Path |-> "", RawQuery |-> ""]

\* Mutant: the error of ParseForm is ignored.
ParseFormIgnored(request) == TRUE

\* request.ParseForm() == nil
ParseForm(request) == request.RawQuery # BadQuery

\* The Go releases whose response writers differ: one that writes every
\* code as it is, one that checks the code (since 1.10), and one that also
\* sends informational responses (since 1.19).
GoReleases == {"go1.9", "go1.18", "go1.19"}
ChecksCode(release) == release # "go1.9"
SendsInformational(release) == release = "go1.19"

\* The release taken where the releases act alike (a status 200, 400, 404,
\* 405 or 500).
AnyRelease == "go1.19"

\* A fresh response: no header, no status written (writes counts the status
\* lines of the final response, status is the code of the first), no
\* informational response sent, no body, and no panic of a call on it.
NewResponse ==
  [hdr |-> [n \in CanonNames |-> <<>>], status |-> 0, writes |-> 0,
   info |-> <<>>, body |-> "", panic |-> FALSE]

\* rw.WriteHeader(code). A call after the status was written is superfluous:
\* it is logged by the server and changes nothing, whatever its code.
\* Otherwise a release that checks the code panics on one outside 100..999,
\* writing nothing; a release that sends informational responses sends a
\* code 1xx other than 101 at once, as a response of its own, and the status
\* of the final response stays open; any other call writes the status.
WriteHeader(rw, code, release) ==
  IF rw.writes > 0
  THEN rw
  ELSE IF ChecksCode(release) /\ (code < 100 \/ code > 999)
  THEN [rw EXCEPT !.panic = TRUE]
  ELSE IF /\ SendsInformational(release)
          /\ code >= 100 /\ code <= 199 /\ code # 101
  THEN [rw EXCEPT !.info = Append(@, code)]
  ELSE [rw EXCEPT !.status = code, !.writes = 1]

\* bodyAllowedForStatus of net/http.
BodyAllowed(status) ==
  ~ \/ (status >= 100 /\ status <= 199)
    \/ status = 204
    \/ status = 304

\* rw.Write(content) in the response to a request of the given method: it
\* calls WriteHeader(200) first when no status was written, writes nothing
\* (and returns ErrBodyNotAllowed, which the callers here ignore) when the
\* status allows no body, and drops the content of a response to HEAD.
Write(rw, content, method, release) ==
  LET w == IF rw.writes = 0 THEN WriteHeader(rw, 200, release) ELSE rw IN
  IF ~BodyAllowed(w.status) \/ method = HEAD
  THEN w
  ELSE [w EXCEPT !.body = @ \o content]

---------------------------------------------------------------------------
\* Logging.

\* The line of api.Logger.Println("sleepy:", m).
Println(m) == "sleepy: " \o m

\* api.log. It reads api.Logger twice without synchronisation: in the test
\* `api.Logger == nil` (the value now, Logger) and in the call
\* api.Logger.Println (atCall: the value then). A no-op without a logger at
\* the test; a nil pointer dereference, which panics, when SetLogger(nil)
\* ran between the two; else one line.
log(lines, m, atCall) ==
  IF ~Logger THEN [lines |-> lines, panic |-> FALSE]
  ELSE IF ~atCall THEN [lines |-> lines, panic |-> TRUE]
  ELSE [lines |-> Append(lines, Println(m)), panic |-> FALSE]

\* The text api.logRequest of core.go formats: "[%v] %s %s%s %d, %s".
RequestText(r, code, msg) ==
  "[" \o RemoteAddr \o "] " \o r.Method \o " " \o r.Path
      \o r.RawQuery \o " " \o ToString(code) \o ", " \o msg

\* The text api.logRequest of part_000 formats: "%s %s%s %d, %s".
RequestTextG(r, code, msg) ==
  r.Method \o " " \o r.Path \o r.RawQuery \o " "
      \o ToString(code) \o ", " \o msg

\* api.logRequest of core.go.
logRequest(lines, r, code, msg, atCall) ==
  log(lines, RequestText(r, code, msg), atCall)

\* api.logRequest of part_000.
logRequestG(lines, r, code, msg, atCall) ==
  log(lines, RequestTextG(r, code, msg), atCall)

\* The logRequest of the running variant.
LogRequest(lines, r, code, msg, atCall) ==
  IF variant = "httprouter" THEN logRequest(lines, r, code, msg, atCall)
  ELSE logRequestG(lines, r, code, msg, atCall)

---------------------------------------------------------------------------
\* The dispatcher.

\* Mutant: the method is taken without the type assertion.
ResolveUnchecked(resource, method) == method

\* The switch on request.Method: the verb method of the resource, or "nil".
Resolve(resource, method) ==
  CASE method = GET -> IF GET \in Implements(resource) THEN GET ELSE "nil"
    [] method = POST -> IF POST \in Implements(resource) THEN POST ELSE "nil"
    [] method = PUT -> IF PUT \in Implements(resource) THEN PUT ELSE "nil"
    [] method = DELETE -> IF DELETE \in Implements(resource) THEN DELETE ELSE "nil"
    [] method = HEAD -> IF HEAD \in Implements(resource) THEN HEAD ELSE "nil"
    [] method = PATCH -> IF PATCH \in Implements(resource) THEN PATCH ELSE "nil"
    [] OTHER -> "nil"

\* The dispatcher's answer with a status of its own: the log line, then the
\* status. When the log call panics the handler ends there (the server
\* recovers the panic and closes the connection) and no status is written.
Refuse(rw, request, code, msg, steps, atCall) ==
  LET lg == LogRequest(<<>>, request, code, msg, atCall) IN
  [rw |-> IF lg.panic THEN rw ELSE WriteHeader(rw, code, AnyRelease),
   lines |-> lg.lines,
   by |-> IF lg.panic THEN "logpanic" ELSE "dispatcher",
   called |-> "nil", invoked |-> 0, steps |-> steps, pc |-> "done"]

\* The function requestHandler(resource) returns, run on one request, up to
\* the call of the resource's method: parse, resolve, and the method called.
\* rw is the response as the handler receives it. The result: the response,
\* the lines logged, how the handler ended if it has, the method called (or
\* "nil"), the number of calls of a resource method and the steps taken.
requestHandler(resource, request, rw, atCall) ==
  IF ~ParseForm(request)
  THEN Refuse(rw, request, StatusBadRequest, "request.ParseForm was nil",
              <<"parse">>, atCall)
  ELSE
    LET handler == Resolve(resource, request.Method) IN
    IF handler = "nil"
    THEN Refuse(rw, request, StatusMethodNotAllowed, "Handler was nil",
                <<"parse", "resolve">>, atCall)
    ELSE [rw |-> rw, lines |-> <<>>, by |-> "dispatcher",
          called |-> handler, invoked |-> 1,
          steps |-> <<"parse", "resolve", "invoke">>, pc |-> "handler"]

\* The handler a wrapper returns: it adds a header of its own (as a
\* compressing wrapper adds Content-Encoding) and calls the wrapped handler.
WrapperValue == "w"
Wrapped(resource, request, rw, atCall) ==
  requestHandler(resource, request,
                 [rw EXCEPT !.hdr = HeaderAdd(rw.hdr, "X-A", WrapperValue)],
                 atCall)

\* requestHandler when the method has returned out: the line "<code>, OK".
handlerReturned(r, out, atCall) ==
  LET lg == LogRequest(r.lines, r.r, out.code, "OK", atCall) IN
  [r EXCEPT !.pc = IF lg.panic THEN "done" ELSE "returned",
            !.by = IF lg.panic THEN "logpanic" ELSE @,
            !.out = out,
            !.lines = lg.lines]

\* requestHandler from json.MarshalIndent to its end. order: the order in
\* which the range over the returned header visits its names; release: see
\* WriteHeader. When WriteHeader panics the handler ends there and the
\* server recovers the panic.
handlerResponds(r, order, release, atCall) ==
  LET m == MarshalIndent(r.out.data) IN
  IF m.err # ""
  THEN
    LET lg == LogRequest(r.lines, r.r, StatusInternalServerError,
                         "err in json.MarshalIndent: " \o m.err, atCall)
    IN [r EXCEPT
          !.pc = "done",
          !.by = IF lg.panic THEN "logpanic" ELSE @,
          !.lines = lg.lines,
          !.rw = IF lg.panic THEN @
                 ELSE WriteHeader(@, StatusInternalServerError, release),
          !.steps = Append(@, "encode")]
  ELSE
    LET h == AddHeaders(r.rw.hdr, r.out.header, order, 1)
        w == WriteHeader([r.rw EXCEPT !.hdr = h], r.out.code, release)
    IN [r EXCEPT
          !.pc = "done",
          !.by = IF w.panic THEN "panic" ELSE @,
          !.rw = IF w.panic THEN w
                 ELSE Write(w, m.content, r.r.Method, release),
          !.steps = @ \o <<"encode", "respond">>]

---------------------------------------------------------------------------
\* The router and the registration state.

\* Router instances: nil, one supplied by the caller of SetMux, and the n-th
\* one created by Mux().
NilRouter == [kind |-> "nil", n |-> 0]
ExtRouter == [kind |-> "ext", n |-> 0]
NewRouter(n) == [kind |-> "new", n |-> n]

\* The fields of the API (and its router's table) a registration works on.
Cur ==
  [mux |-> mux, init |-> muxInitialized, newCount |-> newCount,
   routes |-> routes, wrapCalls |-> wrapCalls, panicked |-> panicked]

\* api.Mux(): the router, created on the first call.
apiMux(st) ==
  IF st.init THEN st
  ELSE [st EXCEPT !.mux = NewRouter(st.newCount + 1),
                  !.newCount = @ + 1,
                  !.routes = <<>>,
                  !.init = TRUE]

\* A route: the path and the verbs it matches, the resource of its
\* requestHandler, and whether a wrapper wrapped the handler.
Route(path, verbs, resource, wrap) ==
  [path |-> path, verbs |-> verbs, res |-> resource, wrap |-> wrap]

\* Mutant: the handler is registered without calling the wrapper.
CallWrapperSkipped(st, wrapper) == st

\* The call wrapper(api.requestHandler(resource)), when there is a wrapper.
CallWrapper(st, wrapper) ==
  IF wrapper THEN [st EXCEPT !.wrapCalls = @ + 1] ELSE st

\* router.GET(path, handle) .. router.PATCH(path, handle) of httprouter: a nil
\* router, a path that does not begin with "/" and a second handle for the
\* same method and path panic.
Handle(st, method, path, resource, wrap) ==
  IF \/ st.mux.kind = "nil"
     \/ path = BadPath
     \/ \E i \in 1..Len(st.routes) :
          st.routes[i].path = path /\ method \in st.routes[i].verbs
  THEN [st EXCEPT !.panicked = TRUE]
  ELSE [st EXCEPT !.routes = Append(@, Route(path, {method}, resource, wrap))]

\* mux.HandleFunc(path, f) of gorilla/mux: a route for the path, whatever the
\* method (a route for a path without "/" is kept in the router and matches
\* no request). On a nil Mux the call panics.
HandleFunc(st, path, resource, wrap) ==
  IF st.mux.kind = "nil"
  THEN [st EXCEPT !.panicked = TRUE]
  ELSE [st EXCEPT !.routes = Append(@, Route(path, Verbs, resource, wrap))]

\* Mutant: each of the six verbs, supported or not.
RegisterVerbsAll(resource) == VerbOrder

\* The verbs AddResource / AddResourceWithWrapper of core.go registers for a
\* path, in its order: those whose type assertion on the resource succeeds.
RegisterVerbs(resource) ==
  SelectSeq(VerbOrder, LAMBDA v : v \in Implements(resource))

\* The registrations a call of AddResource / AddResourceWithWrapper of
\* core.go makes, in order: for each path, for each verb registered.
RECURSIVE RegisterPaths(_, _, _, _)
RegisterPaths(resource, wrapper, paths, j) ==
  IF j > Len(paths) THEN <<>>
  ELSE LET vs == RegisterVerbs(resource) IN
       [k \in 1..Len(vs) |-> Route(paths[j], {vs[k]}, resource, wrapper)]
         \o RegisterPaths(resource, wrapper, paths, j + 1)

\* The registrations a call of AddResource / AddResourceWithWrapper of
\* part_000 makes: one per path, for every verb.
RegisterPathsG(resource, wrapper, paths) ==
  [j \in 1..Len(paths) |-> Route(paths[j], Verbs, resource, wrapper)]

\* The index of the route the router picks for a request, or 0.
RECURSIVE Lookup(_, _, _, _)
Lookup(table, method, path, i) ==
  IF i > Len(table) THEN 0
  ELSE IF table[i].path = path /\ method \in table[i].verbs THEN i
       ELSE Lookup(table, method, path, i + 1)

---------------------------------------------------------------------------
\* The state after construction, and the API's operations.

\* What the step just taken returned, when it ended a call of Mux, SetMux
\* or Start (returned is FALSE for a call of Start that stays in
\* ListenAndServe, or that panicked), and what it logged.
NoRet ==
  [op |-> "", err |-> "", mux |-> NilRouter, listen |-> FALSE,
   returned |-> TRUE, lines |-> <<>>]

Idle ==
  [pc |-> "idle", r |-> NoRequest, res |-> "", wrap |-> FALSE, by |-> "",
   out |-> NoReturn, called |-> "nil", invoked |-> 0, steps |-> <<>>,
   rw |-> NewResponse, lines |-> <<>>]

\* No call of AddResource / AddResourceWithWrapper in progress. Of a call in
\* progress: the registrations still to make, the stage of the first of them
\* ("mux": before its api.Mux(); "wrap": before its wrapper call; "insert":
\* before the router's method), and whether an api.Mux() of this call
\* created the router.
NoCall == [todo |-> <<>>, stage |-> "mux", init |-> FALSE]

\* NewAPI(): a DefaultAPI with no logger and no router.
Init ==
  /\ variant \in {"httprouter", "gorilla"}
  /\ Logger = FALSE
  /\ mux = NilRouter
  /\ muxInitialized = FALSE
  /\ newCount = 0
  /\ routes = <<>>
  /\ wrapCalls = 0
  /\ calls = <<>>
  /\ reg = NoCall
  /\ startpc = "idle"
  /\ serving = FALSE
  /\ ret = NoRet
  /\ req = Idle
  /\ panicked = FALSE

\* Write a registration state back to the API.
Install(st) ==
  /\ mux' = st.mux
  /\ muxInitialized' = st.init
  /\ newCount' = st.newCount
  /\ routes' = st.routes
  /\ wrapCalls' = st.wrapCalls
  /\ panicked' = st.panicked

\* The program runs until an unrecovered panic.
Ready == ~panicked

\* The request followed is kept for one step after its handler has ended.
Forget(r) == IF r.pc = "done" THEN Idle ELSE r

\* The goroutine that configures the API is not inside a call of AddResource
\* or AddResourceWithWrapper: it can make its next call.
Caller == Ready /\ reg.todo = <<>>

\* The value api.Logger has at the Println of a log call. raced: the
\* configuring goroutine runs SetLogger(nil) between the test and the call.
Raced(raced) ==
  /\ raced => (Logger /\ reg.todo = <<>>)
  /\ Logger' = (Logger /\ ~raced)

SetLogger(logger) ==
  /\ Caller
  /\ Logger' = logger
  /\ ret' = NoRet
  /\ req' = Forget(req)
  /\ UNCHANGED <<variant, mux, muxInitialized, newCount, routes, wrapCalls,
                 calls, reg, startpc, serving, panicked>>

Mux ==
  /\ Caller
  /\ LET st == apiMux(Cur) IN
       /\ Install(st)
       /\ ret' = [NoRet EXCEPT !.op = "Mux", !.mux = st.mux]
  /\ req' = Forget(req)
  /\ UNCHANGED <<variant, Logger, calls, reg, startpc, serving>>

\* Mutant: SetMux without the check of muxInitialized.
SetMuxUnchecked(m) ==
  /\ Caller
  /\ mux' = m
  /\ muxInitialized' = TRUE
  /\ ret' = [NoRet EXCEPT !.op = "SetMux"]
  /\ req' = Forget(req)
  /\ UNCHANGED <<variant, Logger, newCount, routes, wrapCalls, calls, reg,
                 startpc, serving, panicked>>

SetMux(m) ==
  /\ Caller
  /\ IF muxInitialized
     THEN /\ ret' = [NoRet EXCEPT !.op = "SetMux", !.err = ErrMuxSet]
          /\ UNCHANGED <<mux, muxInitialized>>
     ELSE /\ mux' = m
          /\ muxInitialized' = TRUE
          /\ ret' = [NoRet EXCEPT !.op = "SetMux"]
  /\ req' = Forget(req)
  /\ UNCHANGED <<variant, Logger, newCount, routes, wrapCalls, calls, reg,
                 startpc, serving, panicked>>

\* The entry of a call of AddResource / AddResourceWithWrapper that has the
\* registrations todo to make: it has touched nothing of the API yet. A call
\* with nothing to register returns at once.
Enter(resource, wrapper, paths, todo) ==
  /\ Caller
  /\ Len(calls) < MaxAdds
  /\ calls' = Append(calls, [res |-> resource, wrap |-> wrapper,
                             paths |-> paths])
  /\ reg' = [NoCall EXCEPT !.todo = todo]
  /\ ret' = NoRet
  /\ req' = Forget(req)
  /\ UNCHANGED <<variant, Logger, mux, muxInitialized, newCount, routes,
                 wrapCalls, startpc, serving, panicked>>

\* AddResource of core.go: the loop over the paths and the type assertions,
\* which lay out the registrations RegisterMux and RegisterInsert make.
AddResource(resource, paths) ==
  /\ variant = "httprouter"
  /\ Enter(resource, FALSE, paths, RegisterPaths(resource, FALSE, paths, 1))

\* AddResourceWithWrapper of core.go: the same, each registration with a
\* call of the wrapper (RegisterWrap).
AddResourceWithWrapper(resource, paths) ==
  /\ variant = "httprouter"
  /\ Enter(resource, TRUE, paths, RegisterPaths(resource, TRUE, paths, 1))

\* AddResource of part_000: the loop over the paths.
AddResourceG(resource, paths) ==
  /\ variant = "gorilla"
  /\ Enter(resource, FALSE, paths, RegisterPathsG(resource, FALSE, paths))

\* AddResourceWithWrapper of part_000.
AddResourceWithWrapperG(resource, paths) ==
  /\ variant = "gorilla"
  /\ Enter(resource, TRUE, paths, RegisterPathsG(resource, TRUE, paths))

\* The call in progress is at the given stage of its next registration.
AtStage(stage) == Ready /\ reg.todo # <<>> /\ reg.stage = stage

\* The api.Mux() of a registration, api.Mux().GET(path, ...) and the like:
\* it creates the router and sets the flag when the flag is not set.
RegisterMux ==
  /\ AtStage("mux")
  /\ Install(apiMux(Cur))
  /\ reg' = [reg EXCEPT
               !.stage = IF Head(reg.todo).wrap THEN "wrap" ELSE "insert",
               !.init = @ \/ ~muxInitialized]
  /\ ret' = NoRet
  /\ req' = Forget(req)
  /\ UNCHANGED <<variant, Logger, calls, startpc, serving>>

\* The argument of a registration of AddResourceWithWrapper:
\* wrapper(api.requestHandler(resource)), evaluated after api.Mux() and
\* before the router's method is called. On a nil Mux of part_000 (an
\* interface value) the method call panics, and the language leaves open
\* whether it does before the argument is evaluated (~argsFirst).
RegisterWrap(argsFirst) ==
  /\ AtStage("wrap")
  /\ ~argsFirst => (variant = "gorilla" /\ mux.kind = "nil")
  /\ IF argsFirst
     THEN /\ Install(CallWrapper(Cur, Head(reg.todo).wrap))
          /\ reg' = [reg EXCEPT !.stage = "insert"]
     ELSE /\ Install([Cur EXCEPT !.panicked = TRUE])
          /\ reg' = reg
  /\ ret' = NoRet
  /\ req' = Forget(req)
  /\ UNCHANGED <<variant, Logger, calls, startpc, serving>>

\* The router's method of a registration: GET .. PATCH of httprouter in
\* core.go, HandleFunc in part_000. It inserts the route or panics; after
\* the last registration the call returns. crash: the write of the router's
\* table ran into a request reading it, and the runtime ended the program
\* (concurrent map read and map write) before the route was in the table.
RegisterInsert(crash) ==
  /\ AtStage("insert")
  /\ crash => serving
  /\ LET route == Head(reg.todo)
         st == IF crash THEN [Cur EXCEPT !.panicked = TRUE]
               ELSE IF variant = "httprouter"
               THEN Handle(Cur, CHOOSE v \in route.verbs : TRUE, route.path,
                           route.res, route.wrap)
               ELSE HandleFunc(Cur, route.path, route.res, route.wrap)
     IN /\ Install(st)
        /\ reg' = IF st.panicked THEN reg
                  ELSE IF Len(reg.todo) = 1 THEN NoCall
                  ELSE [reg EXCEPT !.todo = Tail(@), !.stage = "mux"]
  /\ ret' = NoRet
  /\ req' = Forget(req)
  /\ UNCHANGED <<variant, Logger, calls, startpc, serving>>

\* The errors of ListenAndServe: the port cannot be bound; the listener
\* fails while serving.
ErrListen == "listen tcp :3000: bind: address already in use"
ErrServe == "accept tcp [::]:3000: use of closed network connection"

\* Mutant: Start tests the route table instead of muxInitialized.
StartByRoutes ==
  /\ Ready
  /\ startpc = "idle"
  /\ startpc' = IF Len(routes) > 0 THEN "listen" ELSE "fail"
  /\ ret' = NoRet
  /\ req' = Forget(req)
  /\ UNCHANGED <<variant, Logger, mux, muxInitialized, newCount, routes,
                 wrapCalls, calls, reg, serving, panicked>>

\* Start(port), its test of api.muxInitialized: the call goes on to the log
\* call of the branch taken ("fail": the configuration error; "listen").
\* One call of Start is followed up to the point where it returns or
\* serves; the next can be made while that one serves.
Start ==
  /\ Ready
  /\ startpc = "idle"
  /\ startpc' = IF muxInitialized THEN "listen" ELSE "fail"
  /\ ret' = NoRet
  /\ req' = Forget(req)
  /\ UNCHANGED <<variant, Logger, mux, muxInitialized, newCount, routes,
                 wrapCalls, calls, reg, serving, panicked>>

\* Start(port), the log call of its branch: it logs and returns the
\* configuration error, or logs "Listening on ..." and goes on to the
\* server ("serve"). raced: see Raced; the panic of the log call is not
\* recovered and ends the program before Start returns.
StartLogs(raced) ==
  /\ Ready
  /\ startpc \in {"fail", "listen"}
  /\ Raced(raced)
  /\ IF startpc = "fail"
     THEN LET lg == log(<<>>, ErrNoResource, ~raced) IN
          /\ ret' = [NoRet EXCEPT !.op = "Start", !.lines = lg.lines,
                                  !.returned = ~lg.panic,
                                  !.err = IF lg.panic THEN "" ELSE ErrNoResource]
          /\ panicked' = lg.panic
          /\ startpc' = "idle"
     ELSE LET lg == log(<<>>, "Listening on http://localhost:3000", ~raced) IN
          /\ ret' = IF lg.panic
                    THEN [NoRet EXCEPT !.op = "Start", !.returned = FALSE]
                    ELSE [NoRet EXCEPT !.lines = lg.lines]
          /\ panicked' = lg.panic
          /\ startpc' = IF lg.panic THEN "idle" ELSE "serve"
  /\ req' = Forget(req)
  /\ UNCHANGED <<variant, mux, muxInitialized, newCount, routes, wrapCalls,
                 calls, reg, serving>>

\* Start(port) from the log call on: it takes api.Mux() as the Handler of
\* the server and calls ListenAndServe. listenOK: ListenAndServe binds the
\* port and serves, and the call of Start stays inside it (returned is
\* FALSE); otherwise it returns its error at once. The port is the same in
\* every call, so it cannot be bound while a call before is serving on it.
StartListens(listenOK) ==
  /\ Ready
  /\ startpc = "serve"
  /\ listenOK => ~serving
  /\ Install(apiMux(Cur))
  /\ serving' = (serving \/ listenOK)
  /\ ret' = [NoRet EXCEPT !.op = "Start", !.listen = TRUE,
                          !.returned = ~listenOK,
                          !.err = IF listenOK THEN "" ELSE ErrListen]
  /\ startpc' = "idle"
  /\ req' = Forget(req)
  /\ UNCHANGED <<variant, Logger, calls, reg>>

\* The end of a call of Start that served: ListenAndServe returns the error
\* of its listener, and Start returns it. Handlers that are running go on.
StartReturns ==
  /\ Ready
  /\ serving
  /\ serving' = FALSE
  /\ ret' = [NoRet EXCEPT !.op = "Start", !.listen = TRUE, !.err = ErrServe]
  /\ req' = Forget(req)
  /\ UNCHANGED <<variant, Logger, mux, muxInitialized, newCount, routes,
                 wrapCalls, calls, reg, startpc, panicked>>

---------------------------------------------------------------------------
\* Serving.

NotFoundBody == "404 page not found\n"
MethodNotAllowedBody == "Method Not Allowed\n"

\* What the router answers itself.
RouterReply(request, status, body) ==
  [Idle EXCEPT !.pc = "done", !.r = request, !.by = "router",
               !.rw = Write(WriteHeader(NewResponse, status, AnyRelease),
                            body, request.Method, AnyRelease)]

\* The route's handler started on a request: requestHandler(resource),
\* inside the wrapper's handler when the route was wrapped.
Served(route, request, atCall) ==
  LET res == IF route.wrap
             THEN Wrapped(route.res, request, NewResponse, atCall)
             ELSE requestHandler(route.res, request, NewResponse, atCall)
  IN [pc |-> res.pc, r |-> request, res |-> route.res, wrap |-> route.wrap,
      by |-> res.by, out |-> NoReturn,
      called |-> res.called, invoked |-> res.invoked, steps |-> res.steps,
      rw |-> res.rw, lines |-> res.lines]

\* The server hands a request to its Handler, api.Mux(), which picks the
\* route and calls its handler; the handler runs up to the call of the
\* resource's method, or to its end when it answers 400 or 405. The request
\* becomes the one followed, once the handler of the one before has ended.
\* optionsOK: the httprouter release answers OPTIONS itself with 200.
ServeHTTP(request, optionsOK, raced) ==
  /\ Ready
  /\ serving
  /\ req.pc \in {"idle", "done"}
  /\ Raced(raced)
  /\ LET i == Lookup(routes, request.Method, request.Path, 1) IN
       /\ (request.Method # OPTIONS \/ i > 0) => ~optionsOK
       /\ raced => (i > 0 /\ mux.kind # "nil")
       /\ req' =
            IF mux.kind = "nil"
            THEN IF variant = "httprouter"
                 \* a nil *httprouter.Router: the call panics, the server
                 \* recovers and closes the connection
                 THEN [Idle EXCEPT !.pc = "done", !.r = request,
                                   !.by = "recovered"]
                 \* a nil Handler: http.DefaultServeMux
                 ELSE RouterReply(request, 404, NotFoundBody)
            ELSE IF i > 0
            THEN Served(routes[i], request, ~raced)
            ELSE IF /\ variant = "httprouter"
                    /\ \E k \in 1..Len(routes) : routes[k].path = request.Path
            THEN IF request.Method = OPTIONS /\ optionsOK
                 THEN RouterReply(request, 200, "")
                 ELSE RouterReply(request, StatusMethodNotAllowed,
                                  MethodNotAllowedBody)
            ELSE RouterReply(request, 404, NotFoundBody)
       /\ raced => req'.by = "logpanic"
  /\ ret' = NoRet
  /\ UNCHANGED <<variant, mux, muxInitialized, newCount, routes,
                 wrapCalls, calls, reg, startpc, serving, panicked>>

\* The resource's method returns out, and the handler logs it.
MethodReturns(out, raced) ==
  /\ Ready
  /\ req.pc = "handler"
  /\ Raced(raced)
  /\ req' = handlerReturned(req, out, ~raced)
  /\ ret' = NoRet
  /\ UNCHANGED <<variant, mux, muxInitialized, newCount, routes,
                 wrapCalls, calls, reg, startpc, serving, panicked>>

\* The handler encodes the returned value and writes the response.
Respond(order, release, raced) ==
  /\ Ready
  /\ req.pc = "returned"
  /\ Raced(raced)
  /\ req' = handlerResponds(req, order, release, ~raced)
  /\ raced => req'.by = "logpanic"
  /\ ret' = NoRet
  /\ UNCHANGED <<variant, mux, muxInitialized, newCount, routes,
                 wrapCalls, calls, reg, startpc, serving, panicked>>

\* A step of the program, the arguments of AddResource and
\* AddResourceWithWrapper drawn from registrations and the values the
\* resources' methods return from returns.
Step(registrations, returns) ==
  \/ \E logger \in BOOLEAN : SetLogger(logger)
  \/ Mux
  \/ \E m \in {NilRouter, ExtRouter} : SetMux(m)
  \/ \E c \in registrations : AddResource(c.res, c.paths)
  \/ \E c \in registrations : AddResourceWithWrapper(c.res, c.paths)
  \/ \E c \in registrations : AddResourceG(c.res, c.paths)
  \/ \E c \in registrations : AddResourceWithWrapperG(c.res, c.paths)
  \/ RegisterMux
  \/ \E argsFirst \in BOOLEAN : RegisterWrap(argsFirst)
  \/ \E crash \in BOOLEAN : RegisterInsert(crash)
  \/ Start
  \/ \E raced \in BOOLEAN : StartLogs(raced)
  \/ \E listenOK \in BOOLEAN : StartListens(listenOK)
  \/ StartReturns
  \/ \E request \in Requests, optionsOK \in BOOLEAN, raced \in BOOLEAN :
       ServeHTTP(request, optionsOK, raced)
  \/ \E out \in returns, raced \in BOOLEAN : MethodReturns(out, raced)
  \/ \E release \in GoReleases, raced \in BOOLEAN :
       \E order \in RangeOrders(req.out.header) :
         Respond(order, release, raced)

\* Configuration and start-up: every registration, and resources whose
\* methods return the values of the package's test or nothing.
Next == Step(Registrations, BasicReturns)

Spec == Init /\ [][Next]_vars

\* Responses: every value a method returns, and the registrations of a
\* resource and of a resource without verb methods under one path.
NextResponses == Step(BasicRegistrations, Returns)

SpecResponses == Init /\ [][NextResponses]_vars

---------------------------------------------------------------------------
\* Properties.

Done == req.pc = "done"
\* The request reached a dispatcher, whose handler has ended: at its end
\* (Answered), or by the panic of WriteHeader, or by the panic of a log call
\* whose logger was set to nil under it (LogPanic), which leaves the request
\* without a response.
Dispatched == Done /\ req.by \in {"dispatcher", "panic", "logpanic"}
Answered == Done /\ req.by = "dispatcher"
\* The router answered the request itself.
RouterAnswered == Done /\ req.by = "router"
LogPanic ==
  /\ req.by = "logpanic"
  /\ req.rw.writes = 0 /\ req.rw.info = <<>> /\ req.rw.body = ""
Encodes == req.out.data \in {ItemsData, JNil}
\* The status the method returned is one every Go release writes.
CodeWritable == req.out.code >= 100 /\ req.out.code <= 999
\* The status the method returned is an informational one, which a server
\* that knows informational responses does not take as the final status.
CodeInformational ==
  req.out.code >= 100 /\ req.out.code <= 199 /\ req.out.code # 101
FormOK == req.r.RawQuery # BadQuery
VerbImplemented == req.r.Method \in Implements(req.res)
LastStep == req.steps[Len(req.steps)]

\* No call of AddResource / AddResourceWithWrapper is in progress (or has
\* panicked): the k-th call has returned.
Returned(k) == k < Len(calls) \/ reg.todo = <<>>
CallsReturned == reg.todo = <<>>

\* The routes of the table with the request's path.
RoutesOfPath == {i \in 1..Len(routes) : routes[i].path = req.r.Path}

\* C1, as claimed: a request for a verb the resource of its route does not
\* implement (a verb outside the six included) is answered 405 without a
\* call of a resource method, whatever its content.
C1_Claimed ==
  (Dispatched /\ ~VerbImplemented)
    => (req.rw.status = StatusMethodNotAllowed /\ req.invoked = 0)

\* C1, amended: a request for a verb the resource does not implement calls
\* no resource method. When the router hands it to the resource's dispatcher
\* (part_000, whose routes match every verb) it is answered 405 with an
\* empty body when its form parses and 400 when it does not, or not at all
\* when the log call before the status panics. The router of core.go has no
\* route for such a verb, so the dispatcher never sees one and the router
\* answers itself, whatever the form: 405 when the path has a route for
\* another verb, or 200 to OPTIONS when the router's release answers OPTIONS,
\* and 404 when the path has no route at all.
C1_Amended ==
  /\ (Dispatched /\ ~VerbImplemented)
       => /\ req.invoked = 0
          /\ req.called = "nil"
          /\ req.rw.body = ""
          /\ \/ Answered /\ req.rw.status = (IF FormOK THEN 405 ELSE 400)
             \/ LogPanic
  /\ (Dispatched /\ variant = "httprouter") => VerbImplemented
  /\ (RouterAnswered /\ variant = "httprouter")
       => /\ req.invoked = 0
          /\ \A i \in RoutesOfPath : req.r.Method \notin routes[i].verbs
          /\ req.rw.writes = 1
          /\ IF RoutesOfPath = {} THEN req.rw.status = 404
             ELSE \/ req.rw.status = 405
                  \/ req.rw.status = 200 /\ req.r.Method = OPTIONS
  /\ (Done /\ variant = "httprouter" /\ mux.kind # "nil"
        /\ \A i \in RoutesOfPath : req.r.Method \notin Implements(routes[i].res))
       => RouterAnswered

C1_Witness ==
  /\ Dispatched
  /\ req.r.Method = OPTIONS
  /\ req.res = "Item"
  /\ req.rw.status = 405

\* The two-space-indented JSON text of the values returned, written out.
ExpectedJSON(data) ==
  CASE data = ItemsData ->
         "{\n  \"items\": [\n    \"item1\",\n    \"item2\"\n  ]\n}"
    [] data = JNil -> "null"
    [] OTHER -> "?"

\* A response with a status the dispatcher injected has an empty body.
InjectedEmpty ==
  (Dispatched /\ LastStep # "respond")
    => /\ req.rw.body = ""
       /\ Answered => req.rw.status \in {400, 405, 500}

\* C2, as claimed: a request that parses, whose verb is implemented and
\* whose returned value encodes is answered with the returned status code,
\* whatever its value, and the two-space-indented JSON text of the value; a
\* response whose status the dispatcher injected (400, 405, 500) has an
\* empty body.
C2_Claimed ==
  /\ (Dispatched /\ FormOK /\ VerbImplemented /\ Encodes)
       => /\ Answered
          /\ req.rw.writes = 1
          /\ req.rw.status = req.out.code
          /\ req.rw.body = ExpectedJSON(req.out.data)
  /\ InjectedEmpty

\* The body the server sends with the JSON text the dispatcher writes: none
\* to a HEAD request, none with a final status 1xx, 204 or 304.
BodySent(status) ==
  IF \/ req.r.Method = HEAD
     \/ status \in (100..199) \cup {204, 304}
  THEN ""
  ELSE ExpectedJSON(req.out.data)

\* C2, amended: the returned code is handed to WriteHeader as it is and the
\* JSON text to Write. The response then has the returned status, and the
\* JSON text as its body unless the request is a HEAD or the status is 1xx,
\* 204 or 304, which have no body; a server that knows informational
\* responses (Go 1.19) sends a code 1xx other than 101 as an informational
\* response, followed by the final status 200 with the JSON text; a code
\* outside 100..999 is written as it is or makes WriteHeader panic, and then
\* nothing is written: no status, no body. Nothing is written either when
\* the log call after the method panics. Injected statuses have an empty
\* body.
C2_Response ==
  /\ (Dispatched /\ FormOK /\ VerbImplemented /\ Encodes)
       => \/ /\ Answered
             /\ req.rw.writes = 1
             /\ req.rw.info = <<>>
             /\ req.rw.status = req.out.code
             /\ req.rw.body = BodySent(req.out.code)
          \/ /\ Answered
             /\ CodeInformational
             /\ req.rw.info = <<req.out.code>>
             /\ req.rw.writes = 1
             /\ req.rw.status = 200
             /\ req.rw.body = BodySent(200)
          \/ /\ ~CodeWritable
             /\ req.by = "panic"
             /\ req.rw.writes = 0
             /\ req.rw.info = <<>>
             /\ req.rw.body = ""
          \/ LogPanic
  /\ InjectedEmpty

C2_Witness ==
  /\ Answered
  /\ req.r.Method = GET
  /\ req.out.code = 799
  /\ req.rw.status = 799
  /\ req.out.data = ItemsData
  /\ req.rw.body = "{\n  \"items\": [\n    \"item1\",\n    \"item2\"\n  ]\n}"

\* C3, as claimed: Start on an API on which no route has been registered
\* returns the configuration error and does not reach the listen call.
C3_Claimed ==
  (ret.op = "Start" /\ Len(routes) = 0)
    => (ret.err = ErrNoResource /\ ~ret.listen)

\* C4: once the router is initialized, no call changes the router instance
\* or clears the flag, none creates another router, a SetMux returns an
\* error and a Mux() returns the same instance.
C4_RouterFixed ==
  [][muxInitialized =>
       /\ mux' = mux
       /\ muxInitialized'
       /\ newCount' = newCount
       /\ (ret'.op = "SetMux" => ret'.err = ErrMuxSet)
       /\ (ret'.op = "Mux" => ret'.mux = mux)]_vars

C4_Witness ==
  /\ muxInitialized
  /\ mux = ExtRouter
  /\ Len(routes) > 0
  /\ ret.op = "SetMux"
  /\ ret.err = ErrMuxSet

\* C5, as claimed: a request handled by the dispatcher that logs (a logger
\* is configured) produces exactly one log line, which carries the status
\* written to the response and the note "OK" only when the handler's
\* response was written.
C5_Note ==
  CASE LastStep = "parse" -> "request.ParseForm was nil"
    [] LastStep = "resolve" -> "Handler was nil"
    [] LastStep = "encode" -> "err in json.MarshalIndent: " \o MarshalErrText
    [] OTHER -> "OK"

C5_Line ==
  Println(IF variant = "httprouter"
          THEN RequestText(req.r, req.rw.status, C5_Note)
          ELSE RequestTextG(req.r, req.rw.status, C5_Note))

C5_Claimed ==
  (Dispatched /\ req.lines # <<>>) => req.lines = <<C5_Line>>

\* The values a header set supplies, in the order its names are visited.
RECURSIVE SuppliedValues(_, _, _)
SuppliedValues(header, order, i) ==
  IF i > Len(order) THEN <<>>
  ELSE header[order[i]] \o SuppliedValues(header, order, i + 1)

\* What the wrapper's handler put into the response before the dispatcher ran.
AlreadyPresent(k) ==
  IF req.wrap /\ k = "X-A" THEN <<WrapperValue>> ELSE <<>>

\* Under every response header name: the values already present, then all
\* values the method supplied for the names of that canonical form, each
\* name's values together and in the order supplied.
HeadersMerged ==
  \A k \in CanonNames :
    LET names == {n \in Present(req.out.header) : Canon(n) = k} IN
    \E order \in [1..Cardinality(names) -> names] :
      /\ \A i, j \in DOMAIN order : i # j => order[i] # order[j]
      /\ req.rw.hdr[k]
           = AlreadyPresent(k) \o SuppliedValues(req.out.header, order, 1)

\* C6, as claimed: whenever a resource method returns a header set, all its
\* values are added to the response headers, appended and not deduplicated.
C6_Claimed ==
  (Dispatched /\ req.invoked = 1) => HeadersMerged

\* C6, amended: so it is whenever the returned body value encodes; when the
\* encoding fails (status 500) none of the returned header values is added.
C6_Amended ==
  (Dispatched /\ req.invoked = 1)
    => IF LastStep = "respond"
       THEN HeadersMerged
       ELSE \A k \in CanonNames : req.rw.hdr[k] = AlreadyPresent(k)

C6_Witness ==
  /\ Dispatched
  /\ req.wrap
  /\ req.out.header["X-A"] = <<"1", "1">>
  /\ req.rw.hdr["X-A"] = <<WrapperValue, "1", "1">>
  /\ req.rw.hdr["X-B"] = <<"2">>

\* C7, as claimed: once Start accepts requests, the router, the initialized
\* flag and the route table are not written any more.
C7_Claimed ==
  [][serving =>
       /\ mux' = mux
       /\ muxInitialized' = muxInitialized
       /\ routes' = routes]_vars

\* The routes whose handler a wrapper returned.
Wrappings(table) == Cardinality({i \in 1..Len(table) : table[i].wrap})

\* The wrapper call whose result the router has not got yet: the call in
\* progress has called the wrapper and is before the router's method (or
\* the router's method panicked).
InFlight ==
  IF reg.todo # <<>> /\ reg.stage = "insert" /\ Head(reg.todo).wrap
  THEN 1 ELSE 0

\* Of the calls of AddResourceWithWrapper made: the (path, verb) pairs of
\* the given paths and the verbs the resource supports, and the given paths.
RECURSIVE PairsWrapped(_)
PairsWrapped(k) ==
  IF k = 0 THEN 0
  ELSE PairsWrapped(k - 1)
       + (IF calls[k].wrap
          THEN Len(calls[k].paths) * Cardinality(Implements(calls[k].res))
          ELSE 0)

RECURSIVE PathsWrapped(_)
PathsWrapped(k) ==
  IF k = 0 THEN 0
  ELSE PathsWrapped(k - 1)
       + (IF calls[k].wrap THEN Len(calls[k].paths) ELSE 0)

\* C8, as claimed: once the calls of AddResourceWithWrapper have returned,
\* the wrapper has been called once for each (path, verb) pair of a given
\* path and a verb the resource supports.
C8_Claimed ==
  (CallsReturned /\ ~panicked) => wrapCalls = PairsWrapped(Len(calls))

\* C8, amended: AddResourceWithWrapper calls the wrapper once for each route
\* it registers, just before it hands the result to the router: once per
\* (path, supported verb) pair in core.go, once per path, whatever the verbs,
\* in part_000. The wrapper calls made are those of the wrapped routes in
\* the table and the one whose result the router has not got yet; only the
\* wrapper step of a call in progress calls the wrapper, once, and serving a
\* request never does.
C8_WrapperOnce ==
  [][/\ wrapCalls' = Wrappings(routes') + InFlight'
     /\ (CallsReturned' /\ ~panicked')
          => wrapCalls' = (IF variant = "httprouter"
                           THEN PairsWrapped(Len(calls))'
                           ELSE PathsWrapped(Len(calls))')
     /\ (wrapCalls' # wrapCalls)
          => /\ reg.todo # <<>> /\ reg.stage = "wrap"
             /\ wrapCalls' = wrapCalls + 1
             /\ routes' = routes
     /\ (req' # req /\ req'.pc # "idle") => (wrapCalls' = wrapCalls)]_vars

C8_Witness ==
  /\ variant = "gorilla"
  /\ Len(calls) = 1
  /\ wrapCalls = 2
  /\ Len(routes) = 2
  /\ Dispatched
  /\ req.wrap
  /\ req.r.Method = HEAD
  /\ req.invoked = 1

AllSteps == <<"parse", "resolve", "invoke", "encode", "respond">>

\* The steps taken are those up to the first that fails, and the method is
\* called once, or not at all after a failed parse or for an unsupported
\* verb.
Supported == req.r.Method \in SixVerbs /\ VerbImplemented

StepsInOrder ==
  LET n == IF ~FormOK THEN 1
           ELSE IF ~Supported THEN 2
           ELSE IF ~Encodes THEN 4 ELSE 5
  IN /\ req.steps = SubSeq(AllSteps, 1, n)
     /\ req.invoked = (IF FormOK /\ Supported THEN 1 ELSE 0)

\* The handler ended in the panic of the log call after the method.
EndedAtInvoke ==
  /\ LogPanic
  /\ FormOK /\ Supported
  /\ req.steps = SubSeq(AllSteps, 1, 3)
  /\ req.invoked = 1

\* The status of the request's outcome: 400 after a failed parse, else 405
\* for an unsupported verb, else 500 when the encoding fails, else the
\* method's status.
OutcomeStatus ==
  IF ~FormOK THEN 400
  ELSE IF ~VerbImplemented THEN 405
  ELSE IF ~Encodes THEN 500 ELSE req.out.code

\* That status, written once, and no other.
StatusOnce ==
  /\ req.rw.status = OutcomeStatus
  /\ req.rw.writes = 1
  /\ req.rw.info = <<>>
  /\ Answered

\* C9, as claimed: the dispatcher runs parse, resolve, invoke, encode,
\* respond in this order and stops at the first step that fails: 400, else
\* 405, else 500, else the method's status; the method is called at most
\* once, not at all after a failed parse or for an unsupported verb, and the
\* status is written exactly once on every path.
C9_Claimed ==
  Dispatched => (StepsInOrder /\ StatusOnce)

\* C9, amended: so it is, except that
\*  - a method's status 1xx other than 101 is sent by a server that knows
\*    informational responses as such a response, followed by the final
\*    status 200: two status lines, neither injected by the dispatcher;
\*  - the respond step itself fails when the method's status is outside
\*    100..999 and WriteHeader panics on it;
\*  - the handler ends where a log call panics (before the status of the
\*    failing step, or after the method and before the encoding);
\* in the last two cases no status and no body is written at all.
C9_Steps ==
  Dispatched =>
    \/ StepsInOrder /\ StatusOnce
    \/ /\ StepsInOrder
       /\ Answered
       /\ LastStep = "respond"
       /\ CodeInformational
       /\ req.rw.info = <<req.out.code>>
       /\ req.rw.status = 200
       /\ req.rw.writes = 1
    \/ /\ StepsInOrder
       /\ req.by = "panic"
       /\ LastStep = "respond"
       /\ ~CodeWritable
       /\ req.rw.writes = 0
       /\ req.rw.info = <<>>
       /\ req.rw.body = ""
    \/ StepsInOrder /\ LogPanic /\ LastStep # "respond"
    \/ EndedAtInvoke

C9_Witness ==
  /\ Dispatched
  /\ req.steps = <<"parse", "resolve", "invoke", "encode">>
  /\ req.rw.status = 500
  /\ req.out.code = 200
  /\ req.invoked = 1

\* The routes of the table, as a set.
Table == {routes[i] : i \in 1..Len(routes)}

\* The routes a call is to register in core.go: for every given path, one
\* per verb the resource supports.
RoutesPerVerb(c) ==
  {Route(c.paths[j], {v}, c.res, c.wrap) :
     j \in 1..Len(c.paths), v \in Implements(c.res)}

\* The routes a call is to register in part_000: for every given path, one
\* that matches every verb.
RoutesPerPath(c) ==
  {Route(c.paths[j], Verbs, c.res, c.wrap) : j \in 1..Len(c.paths)}

\* The table holds, for every given path of every call that has returned,
\* one route per verb the resource supports, and no other route than these
\* and those the call in progress has made so far; no (path, verb) has two.
OneRoutePerVerb ==
  /\ \A k \in 1..Len(calls) : Returned(k) => RoutesPerVerb(calls[k]) \subseteq Table
  /\ Table \subseteq UNION {RoutesPerVerb(calls[k]) : k \in 1..Len(calls)}
  /\ \A i, j \in 1..Len(routes) :
       (routes[i].path = routes[j].path /\ routes[i].verbs = routes[j].verbs)
         => i = j

\* The same of part_000, with one route per given path.
OneRoutePerPath ==
  /\ \A k \in 1..Len(calls) : Returned(k) => RoutesPerPath(calls[k]) \subseteq Table
  /\ Table \subseteq UNION {RoutesPerPath(calls[k]) : k \in 1..Len(calls)}

\* A method is called only through a route of the request's path, and is
\* the method of the request's verb.
InvokedThroughRoute ==
  Dispatched =>
    /\ \E i \in 1..Len(routes) :
         /\ routes[i].path = req.r.Path
         /\ routes[i].res = req.res
         /\ req.r.Method \in routes[i].verbs
    /\ req.invoked = 1 => (VerbImplemented /\ req.called = req.r.Method)

\* C10, as claimed: in both variants the table has, for every given path,
\* one route per supported verb and none for an unsupported verb, and a
\* request calls the method of its verb exactly if the resource was
\* registered under its path and implements the verb.
C10_Claimed ==
  /\ OneRoutePerVerb
  /\ InvokedThroughRoute
  /\ Done =>
       (req.invoked = 1 <=>
          \E i \in 1..Len(routes) :
            /\ routes[i].path = req.r.Path
            /\ req.r.Method \in Implements(routes[i].res))

\* C10, amended: a call that returns has registered, for every given path,
\* one route per supported verb and none for an unsupported verb in core.go,
\* and one route that matches every verb in part_000; until it returns, and
\* for good when a registration panics (in core.go a path registered for the
\* verb before or a path without "/", in both a nil router), the table has
\* the routes of the calls before and only some of this call's. In both
\* variants a method is called only for a request whose path the resource
\* was registered under and whose verb it implements, and it is called when
\* that resource's route is the one the router picks and the request's form
\* parses.
C10_Amended ==
  /\ variant = "httprouter" => OneRoutePerVerb
  /\ variant = "gorilla" => OneRoutePerPath
  /\ InvokedThroughRoute
  /\ Done => (req.invoked = 1 <=> (Dispatched /\ VerbImplemented /\ FormOK))

C10_Witness ==
  /\ variant = "httprouter"
  /\ calls = <<[res |-> "Item", wrap |-> FALSE, paths |-> <<"/a", "/b">>]>>
  /\ Len(routes) = 4
  /\ ~panicked
  /\ Dispatched
  /\ req.r.Path = "/b"
  /\ req.called = GET

---------------------------------------------------------------------------

\* The test of a call of Start.
StartTests == startpc = "idle" /\ startpc' # "idle"

\* Start goes for the configuration error exactly if muxInitialized is
\* false when it tests it, and then returns the error without listening;
\* otherwise it goes on to listen.
StartByFlag ==
  /\ StartTests => (startpc' = "fail" <=> ~muxInitialized)
  /\ (startpc = "fail" /\ startpc' # "fail")
       => /\ ret'.op = "Start" /\ ret'.err = ErrNoResource
          /\ ret'.returned /\ ~ret'.listen
          /\ serving' = serving
  /\ (startpc = "listen" /\ startpc' # "listen") => startpc' = "serve"
  /\ (startpc = "serve" /\ startpc' # "serve")
       => /\ ret'.op = "Start" /\ ret'.err # ErrNoResource
          /\ ret'.listen
  /\ (ret'.err = ErrNoResource) => startpc = "fail"
  /\ ret'.listen => (startpc = "serve" \/ serving)

\* The log call of Start panicked: Start neither returns nor listens.
StartPanics ==
  /\ startpc \in {"fail", "listen"} /\ startpc' = "idle"
  /\ ret'.op = "Start"
  /\ panicked'
  /\ ~ret'.returned
  /\ ~ret'.listen
  /\ serving' = serving

\* A step that sets muxInitialized.
FlagSet == ~muxInitialized /\ muxInitialized'
MuxCalled == ret'.op = "Mux"
SetMuxSucceeded == ret'.op = "SetMux" /\ ret'.err = ""
AddCalled == Len(calls') = Len(calls) + 1
\* The api.Mux() of a registration of the call in progress.
RegistrationMux ==
  /\ reg.todo # <<>> /\ reg.stage = "mux"
  /\ reg'.todo = reg.todo /\ reg'.stage # "mux"

\* C11, as claimed: Start returns the configuration error exactly if
\* muxInitialized is false at the call, and the flag is set only by Mux(), by
\* a successful SetMux, or by an AddResource / AddResourceWithWrapper call
\* that registers a route.
C11_Claimed ==
  [][/\ StartByFlag
     /\ FlagSet => \/ MuxCalled
                   \/ SetMuxSucceeded
                   \/ RegistrationMux
     /\ (reg'.init /\ panicked') => Len(routes') > 0]_vars

\* C11, amended: Start returns the configuration error exactly if
\* muxInitialized is false when Start tests it, and otherwise listens,
\* whatever the routes; the flag is set only by Mux(), by a successful
\* SetMux, or by the api.Mux() of the first registration of an AddResource /
\* AddResourceWithWrapper call, before the route is inserted and whether or
\* not the insertion then panics: the flag can be set with no route in the
\* table. A call that has nothing to register (no path, or in core.go a
\* resource without verb methods) does not touch the flag. A Start whose log
\* call panics (the logger was set to nil under it) ends the program
\* instead, without an error returned and without listening.
C11_StartByFlag ==
  [][/\ StartByFlag \/ StartPanics
     /\ FlagSet => \/ MuxCalled
                   \/ SetMuxSucceeded
                   \/ RegistrationMux /\ reg'.init /\ routes' = <<>>
     /\ AddCalled
          => /\ muxInitialized' = muxInitialized
             /\ LET c == calls'[Len(calls')] IN
                reg'.todo = <<>>
                  <=> \/ c.paths = <<>>
                      \/ variant = "httprouter" /\ Implements(c.res) = {}]_vars

\* Start has returned the configuration error after a call of AddResource
\* that registered nothing.
C11_Witness ==
  /\ ret.op = "Start"
  /\ ret.err = ErrNoResource
  /\ ~ret.listen
  /\ Len(calls) > 0
  /\ ~muxInitialized
  /\ ~panicked

====
